---- MODULE Spec2Model ----
(***************************************************************************)
(* Model of the PDF extraction pipeline of OCR8.py, OCR9.py and ocr9.py:   *)
(* the per-page dispatcher between structured extraction (pdfplumber) and  *)
(* OCR (pytesseract), the element extraction with bounding boxes, the      *)
(* serializers and main.                                                   *)
(***************************************************************************)
EXTENDS Integers, Sequences, FiniteSets, TLC

\* ------------------------------------------------------------------ bounds
\* Largest number of pages of the input document.
MaxPages == 2
\* Largest number of words (structured or recognized) of the whole document.
MaxWords == 2

\* --------------------------------------------------------------- constants
\* ocr9.py:110 / OCR9.py:79   if text and conf > 50
ConfThreshold == 50

\* The three source files.
Variants == {"OCR8", "OCR9", "ocr9"}

\* OCR8.py has no extract_elements_for_html; OCR9.py and ocr9.py have it.
HasElements(v) == v \in {"OCR9", "ocr9"}

\* How the program is entered: through main, or by calling an extraction
\* method of PDFExtractor directly.
Entries(v) == {"main", "text"} \cup (IF HasElements(v) THEN {"elements"} ELSE {})

\* ------------------------------------------------------------ Python values
\* A text value returned by a backend: None or a string.
PyNone == [none |-> TRUE, str |-> ""]
PyStr(s) == [none |-> FALSE, str |-> s]

\* Python truthiness of a text value: None and "" are falsy.
Truthy(v) == ~v.none /\ v.str # ""

\* The outcome of a backend call: it raises exc, or returns val.
Raises(e) == [exc |-> e, val |-> PyNone]
Returns(v) == [exc |-> "", val |-> v]

\* Non-empty page texts: "a", and "U+20AC", which stands for the one-character
\* text of the euro sign, a character outside Latin-1.
Texts == {"a", "U+20AC"}

\* What page.extract_text can do on a page.
TextOutcomes ==
    {Raises("Exception"), Returns(PyNone), Returns(PyStr(""))}
        \cup {Returns(PyStr(t)) : t \in Texts}

\* What page.to_image(...).original followed by image_to_string can do: img is
\* the outcome of the rasterization, ocr of the recognition (not run when the
\* rasterization raised).
OcrOutcomes ==
    {[img |-> Raises("Exception"), ocr |-> Returns(PyNone)]}
        \cup {[img |-> Returns(PyNone), ocr |-> o] :
                o \in {Raises("TesseractNotFoundError"), Raises("Exception"),
                       Returns(PyStr(""))} \cup {Returns(PyStr(t)) : t \in Texts}}

\* ------------------------------------------------------------- Python dict
\* A dict is the sequence of its items in insertion order.
EmptyDict == <<>>

Keys(d) == {d[i].k : i \in 1..Len(d)}

Get(d, key) == (CHOOSE i \in 1..Len(d) : d[i].k = key)

\* DictSet rebinding the name to a fresh dict of the one item.
DictSetFresh(d, key, value) == <<[k |-> key, v |-> value]>>

\* d[key] = value: replaces the value of an existing key in place, appends a
\* new key.
DictSet(d, key, value) ==
    IF key \in Keys(d)
    THEN [i \in 1..Len(d) |-> IF d[i].k = key THEN [k |-> key, v |-> value] ELSE d[i]]
    ELSE Append(d, [k |-> key, v |-> value])

Lookup(d, key) == d[Get(d, key)].v

VARIABLES
    variant,             \* the source file that runs
    entry,               \* "main", or the extraction method called directly
    file_exists,         \* the input path names an existing file
    num_pages,           \* len(pdf.pages) of the document
    pc,                  \* position of the program
    page_idx,            \* page_number of the page the for loop is about to take
    extracted_data,      \* local of extract_data / extract_data_layout_preserved
    extracted_elements,  \* local of extract_elements_for_html
    ret,                 \* value returned by the extraction method that ran last
    layout_data,         \* main: the text map (data in OCR8.py)
    html_elements_data,  \* main: the element map
    output_format,       \* main: the format typed at the prompt
    prompted,            \* main: the output prompts have been shown
    serializer,          \* main: the serializer that was called, "" if none
    out_file,            \* the output file written by a serializer
    trace,               \* backend calls of the current method call, with outcomes
    stdout,              \* the message printed last, "" if none
    uncaught             \* the exception that left the program, "" if none

vars == <<variant, entry, file_exists, num_pages, pc, page_idx, extracted_data,
          extracted_elements, ret, layout_data, html_elements_data,
          output_format, prompted, serializer, out_file, trace, stdout, uncaught>>

NoFile == [written |-> FALSE, kind |-> "", body |-> <<>>]

Init ==
    /\ variant \in Variants
    /\ entry \in Entries(variant)
    /\ file_exists \in BOOLEAN
    /\ num_pages \in 0..MaxPages
    /\ pc = (CASE entry = "main" -> "main_start"
               [] entry = "text" -> "text_open"
               [] entry = "elements" -> "elem_open")
    /\ page_idx = 1
    /\ extracted_data = EmptyDict
    /\ extracted_elements = EmptyDict
    /\ ret = EmptyDict
    /\ layout_data = EmptyDict
    /\ html_elements_data = EmptyDict
    /\ output_format = ""
    /\ prompted = FALSE
    /\ serializer = ""
    /\ out_file = NoFile
    /\ trace = <<>>
    /\ stdout = ""
    /\ uncaught = ""

\* ------------------------------------------------------- exception handling
\* ExtractHandler without the except FileNotFoundError clause and with the
\* generic clause narrowed so that it no longer takes FileNotFoundError.
ExtractHandlerNoFnf(exc) ==
    IF exc = "FileNotFoundError" THEN "" ELSE "unexpected_error"

\* ExtractHandler without the except Exception clause.
ExtractHandlerOnlyFnf(exc) ==
    IF exc = "FileNotFoundError" THEN "file_not_found" ELSE ""

\* The handlers of the extraction methods, in source order:
\* except FileNotFoundError / except Exception. The result is the message
\* printed, or "" when no handler takes the exception.
ExtractHandler(exc) ==
    IF exc = "FileNotFoundError" THEN "file_not_found" ELSE "unexpected_error"

\* pdfplumber.open(self.pdf_path): a missing file raises FileNotFoundError, an
\* existing one opens or raises on unreadable content.
OpenOutcomes(exists) ==
    IF exists THEN {Returns(PyNone), Raises("Exception")}
    ELSE {Raises("FileNotFoundError")}

\* Where a method goes when it ends: back into main, or out of the program.
AfterMethod(m) ==
    IF entry = "main" THEN (IF m = "text" THEN "text_returned" ELSE "elem_returned")
    ELSE "exit"

\* ------------------------------------------------------- the text pipeline
\* _extract_with_plumber: the text, or "" for None, "" and any exception.
extract_with_plumber(o) ==
    IF o.exc # ""
    THEN [text |-> "", printed |-> "plumber_error"]
    ELSE [text |-> IF Truthy(o.val) THEN o.val.str ELSE "", printed |-> ""]

\* _extract_with_ocr: rasterize, recognize; "" for any exception.
extract_with_ocr(o) ==
    LET exc == IF o.img.exc # "" THEN o.img.exc ELSE o.ocr.exc
    IN  IF exc = ""
        THEN [text |-> IF Truthy(o.ocr.val) THEN o.ocr.val.str ELSE "", printed |-> ""]
        ELSE IF exc = "TesseractNotFoundError"
        THEN [text |-> "", printed |-> "tesseract_missing"]
        ELSE [text |-> "", printed |-> "ocr_error"]

\* The backend calls _extract_with_ocr makes on page p under outcome o.
OcrEvents(p, o) ==
    <<[fn |-> "to_image", page |-> p, out |-> o.img]>>
        \o (IF o.img.exc = "" THEN <<[fn |-> "image_to_string", page |-> p, out |-> o.ocr]>>
            ELSE <<>>)

\* NeedsOcr with the test left out: OCR runs on every page.
NeedsOcrAlways(plumber_text) == TRUE

\* Does the loop fall back to OCR for this structured text?
NeedsOcr(plumber_text) == plumber_text = ""

\* TextLoopBody with the fallback branch storing plumber_text for ocr_text.
TextLoopBodyStoresPlumber(d, p, to, oo) ==
    LET pt == extract_with_plumber(to)
        ot == extract_with_ocr(oo)
        ev == <<[fn |-> "extract_text", page |-> p, out |-> to]>>
    IN  IF ~NeedsOcr(pt.text)
        THEN [data |-> DictSet(d, p, pt.text), events |-> ev, printed |-> pt.printed]
        ELSE [data |-> DictSet(d, p, pt.text), events |-> ev \o OcrEvents(p, oo),
              printed |-> IF ot.printed # "" THEN ot.printed ELSE pt.printed]

\* One iteration of the for loop of extract_data / extract_data_layout_preserved
\* on page p: to is what extract_text does, oo what OCR does if it is called.
TextLoopBody(d, p, to, oo) ==
    LET pt == extract_with_plumber(to)
        ot == extract_with_ocr(oo)
        ev == <<[fn |-> "extract_text", page |-> p, out |-> to]>>
    IN  IF ~NeedsOcr(pt.text)
        THEN [data |-> DictSet(d, p, pt.text), events |-> ev, printed |-> pt.printed]
        ELSE [data |-> DictSet(d, p, ot.text), events |-> ev \o OcrEvents(p, oo),
              printed |-> IF ot.printed # "" THEN ot.printed ELSE pt.printed]

\* with pdfplumber.open(self.pdf_path) as pdf
Text_Open ==
    /\ pc = "text_open"
    /\ \E o \in OpenOutcomes(file_exists) :
        /\ trace' = <<[fn |-> "open", page |-> 0, out |-> o]>>
        /\ IF o.exc = ""
           THEN /\ pc' = "text_loop"
                /\ UNCHANGED <<ret, stdout, uncaught>>
           ELSE LET h == ExtractHandler(o.exc)
                IN  IF h = ""
                    THEN /\ pc' = "crashed"
                         /\ uncaught' = o.exc
                         /\ UNCHANGED <<ret, stdout>>
                    ELSE /\ pc' = AfterMethod("text")
                         /\ ret' = EmptyDict
                         /\ stdout' = h
                         /\ UNCHANGED uncaught
    /\ extracted_data' = EmptyDict
    /\ page_idx' = 1
    /\ UNCHANGED <<variant, entry, file_exists, num_pages, extracted_elements,
                   layout_data, html_elements_data, output_format, prompted, serializer,
                   out_file>>

\* for page in pdf.pages: one iteration
Text_Page ==
    /\ pc = "text_loop"
    /\ page_idx <= num_pages
    /\ \E to \in TextOutcomes, oo \in OcrOutcomes :
        LET r == TextLoopBody(extracted_data, page_idx, to, oo)
        IN  /\ extracted_data' = r.data
            /\ trace' = trace \o r.events
            /\ stdout' = (IF r.printed # "" THEN r.printed ELSE stdout)
    /\ page_idx' = page_idx + 1
    /\ UNCHANGED <<variant, entry, file_exists, num_pages, pc, extracted_elements, ret,
                   layout_data, html_elements_data, output_format, prompted, serializer,
                   out_file, uncaught>>

\* Text_Return with the return statement inside the for loop: the method
\* returns after the first page.
Text_ReturnInLoop ==
    /\ pc = "text_loop"
    /\ page_idx > num_pages \/ page_idx = 2
    /\ ret' = extracted_data
    /\ stdout' = "completed"
    /\ pc' = AfterMethod("text")
    /\ UNCHANGED <<variant, entry, file_exists, num_pages, page_idx, extracted_data,
                   extracted_elements, layout_data, html_elements_data, output_format,
                   prompted, serializer, out_file, trace, uncaught>>

\* the loop is exhausted: print the completion message, return extracted_data
Text_Return ==
    /\ pc = "text_loop"
    /\ page_idx > num_pages
    /\ ret' = extracted_data
    /\ stdout' = "completed"
    /\ pc' = AfterMethod("text")
    /\ UNCHANGED <<variant, entry, file_exists, num_pages, page_idx, extracted_data,
                   extracted_elements, layout_data, html_elements_data, output_format,
                   prompted, serializer, out_file, trace, uncaught>>

\* ---------------------------------------------------- the element pipeline
\* Texts of words are sequences of characters.
Whitespace == {" "}

RECURSIVE LStrip(_)
LStrip(t) == IF t # <<>> /\ Head(t) \in Whitespace THEN LStrip(Tail(t)) ELSE t

RECURSIVE RStrip(_)
RStrip(t) ==
    IF t # <<>> /\ t[Len(t)] \in Whitespace THEN RStrip(SubSeq(t, 1, Len(t) - 1)) ELSE t

\* str.strip()
Strip(t) == RStrip(LStrip(t))

\* Words page.extract_words can return: text and x0, top, x1, bottom.
PlumberWords ==
    { [text |-> <<"<">>, x0 |-> 1, top |-> 1, x1 |-> 5, bottom |-> 2],
      [text |-> <<"w">>, x0 |-> 2, top |-> 3, x1 |-> 3, bottom |-> 4] }

\* A confidence as image_to_data delivers it: a number, or a string holding
\* the number's decimal form.
ConfNum(n) == [isStr |-> FALSE, val |-> n]
ConfStr(n) == [isStr |-> TRUE, val |-> n]

\* Rows image_to_data can return (one per index of the column lists): a good
\* word with padded text, a word at the threshold, the no-confidence marker as
\* a string and as a number, and a blank text of high confidence.
OcrRows ==
    { [text |-> <<" ", "o">>, conf |-> ConfNum(51), left |-> 1, top |-> 1, width |-> 4, height |-> 2],
      [text |-> <<"t">>, conf |-> ConfNum(50), left |-> 2, top |-> 1, width |-> 1, height |-> 1],
      [text |-> <<"m">>, conf |-> ConfStr(-1), left |-> 3, top |-> 2, width |-> 1, height |-> 3],
      [text |-> <<"n">>, conf |-> ConfNum(-1), left |-> 4, top |-> 2, width |-> 2, height |-> 1],
      [text |-> <<" ">>, conf |-> ConfNum(96), left |-> 5, top |-> 3, width |-> 1, height |-> 1] }

SeqsUpTo(S, n) == UNION {[1..k -> S] : k \in 0..n}

WordsRaises(e) == [exc |-> e, val |-> <<>>]
WordsReturns(ws) == [exc |-> "", val |-> ws]

\* What page.extract_words can do with at most n words.
WordsOutcomes(n) ==
    {WordsRaises("Exception")} \cup {WordsReturns(ws) : ws \in SeqsUpTo(PlumberWords, n)}

\* What rasterization followed by image_to_data can do with at most n rows.
DataOutcomes(n) ==
    {[img |-> WordsRaises("Exception"), data |-> WordsReturns(<<>>)]}
        \cup {[img |-> WordsReturns(<<>>), data |-> o] :
                o \in {WordsRaises("TesseractNotFoundError"), WordsRaises("Exception")}
                        \cup {WordsReturns(rs) : rs \in SeqsUpTo(OcrRows, n)}}

\* float(data['conf'][i]) if data['conf'][i] != '-1' else 0
ConfOf(c) == IF ~(c.isStr /\ c.val = -1) THEN c.val ELSE 0

\* KeepsRow with the threshold included.
KeepsRowGe(text, conf) == text # <<>> /\ conf >= ConfThreshold

\* if text and conf > 50
KeepsRow(text, conf) == text # <<>> /\ conf > ConfThreshold

\* the element appended for a structured word
PlumberElement(word) ==
    [text |-> word.text, x0 |-> word.x0, y0 |-> word.top,
     x1 |-> word.x1, y1 |-> word.bottom, source |-> "plumber"]

\* the element appended for a recognized row
OcrElement(text, x, y, w, h) ==
    [text |-> text, x0 |-> x, y0 |-> y, x1 |-> x + w, y1 |-> y + h, source |-> "ocr"]

\* for word in words: elements.append(...)
RECURSIVE PlumberElements(_)
PlumberElements(words) ==
    IF words = <<>> THEN <<>>
    ELSE <<PlumberElement(Head(words))>> \o PlumberElements(Tail(words))

\* for i in range(len(data['text'])): ...
RECURSIVE OcrElements(_)
OcrElements(rows) ==
    IF rows = <<>> THEN <<>>
    ELSE LET r == Head(rows)
             text == Strip(r.text)
             conf == ConfOf(r.conf)
         IN  (IF KeepsRow(text, conf)
              THEN <<OcrElement(text, r.left, r.top, r.width, r.height)>>
              ELSE <<>>) \o OcrElements(Tail(rows))

\* UsesPlumberWords asking for more than one word.
UsesPlumberWordsMany(words) == Len(words) > 1

\* if words: (a non-empty list)
UsesPlumberWords(words) == Len(words) > 0

\* One iteration of the for loop of extract_elements_for_html on page p: wo is
\* what extract_words does, oo what rasterization and image_to_data do if they
\* are called. raised is the exception that leaves the loop, "" if none.
ElemLoopBody(p, wo, oo) ==
    LET ev == <<[fn |-> "extract_words", page |-> p, out |-> wo]>>
        evi == <<[fn |-> "to_image", page |-> p, out |-> oo.img]>>
        evd == <<[fn |-> "image_to_data", page |-> p, out |-> oo.data]>>
    IN  IF wo.exc # ""
        THEN [raised |-> wo.exc, elements |-> <<>>, events |-> ev]
        ELSE IF UsesPlumberWords(wo.val)
        THEN [raised |-> "", elements |-> PlumberElements(wo.val), events |-> ev]
        ELSE IF oo.img.exc # ""
        THEN [raised |-> oo.img.exc, elements |-> <<>>, events |-> ev \o evi]
        ELSE IF oo.data.exc # ""
        THEN [raised |-> oo.data.exc, elements |-> <<>>, events |-> ev \o evi \o evd]
        ELSE [raised |-> "", elements |-> OcrElements(oo.data.val),
              events |-> ev \o evi \o evd]

\* The words and rows the backends have delivered in the current method call.
RECURSIVE WordsUsed(_)
WordsUsed(evs) ==
    IF evs = <<>> THEN 0
    ELSE (IF Head(evs).fn \in {"extract_words", "image_to_data"}
          THEN Len(Head(evs).out.val) ELSE 0) + WordsUsed(Tail(evs))

\* with pdfplumber.open(self.pdf_path) as pdf
Elem_Open ==
    /\ pc = "elem_open"
    /\ HasElements(variant)
    /\ \E o \in OpenOutcomes(file_exists) :
        /\ trace' = <<[fn |-> "open", page |-> 0, out |-> o]>>
        /\ IF o.exc = ""
           THEN /\ pc' = "elem_loop"
                /\ UNCHANGED <<ret, stdout, uncaught>>
           ELSE LET h == ExtractHandler(o.exc)
                IN  IF h = ""
                    THEN /\ pc' = "crashed"
                         /\ uncaught' = o.exc
                         /\ UNCHANGED <<ret, stdout>>
                    ELSE /\ pc' = AfterMethod("elements")
                         /\ ret' = EmptyDict
                         /\ stdout' = h
                         /\ UNCHANGED uncaught
    /\ extracted_elements' = EmptyDict
    /\ page_idx' = 1
    /\ UNCHANGED <<variant, entry, file_exists, num_pages, extracted_data,
                   layout_data, html_elements_data, output_format, prompted, serializer,
                   out_file>>

\* for page in pdf.pages: one iteration; an exception ends the method in its
\* handler, which returns {}
Elem_Page ==
    /\ pc = "elem_loop"
    /\ page_idx <= num_pages
    /\ LET n == MaxWords - WordsUsed(trace)
       IN  \E wo \in WordsOutcomes(n), oo \in DataOutcomes(n) :
            LET r == ElemLoopBody(page_idx, wo, oo)
                h == ExtractHandler(r.raised)
            IN  /\ trace' = trace \o r.events
                /\ IF r.raised = ""
                   THEN /\ extracted_elements' = DictSet(extracted_elements, page_idx, r.elements)
                        /\ page_idx' = page_idx + 1
                        /\ UNCHANGED <<pc, ret, stdout, uncaught>>
                   ELSE IF h = ""
                   THEN /\ pc' = "crashed"
                        /\ uncaught' = r.raised
                        /\ UNCHANGED <<extracted_elements, page_idx, ret, stdout>>
                   ELSE /\ pc' = AfterMethod("elements")
                        /\ ret' = EmptyDict
                        /\ stdout' = h
                        /\ UNCHANGED <<extracted_elements, page_idx, uncaught>>
    /\ UNCHANGED <<variant, entry, file_exists, num_pages, extracted_data,
                   layout_data, html_elements_data, output_format, prompted, serializer,
                   out_file>>

\* the loop is exhausted: return extracted_elements
Elem_Return ==
    /\ pc = "elem_loop"
    /\ page_idx > num_pages
    /\ ret' = extracted_elements
    /\ pc' = AfterMethod("elements")
    /\ UNCHANGED <<variant, entry, file_exists, num_pages, page_idx, extracted_data,
                   extracted_elements, layout_data, html_elements_data, output_format,
                   prompted, serializer, out_file, trace, stdout, uncaught>>

\* ------------------------------------------------------------ serializers
\* save_to_docx: heading, paragraph and page break per item of the map
RECURSIVE DocxBody(_)
DocxBody(data) ==
    IF data = <<>> THEN <<>>
    ELSE << [tag |-> "heading", page |-> Head(data).k],
            [tag |-> "paragraph", text |-> Head(data).v],
            [tag |-> "page_break"] >> \o DocxBody(Tail(data))

\* save_to_txt: header line, content and blank line per item of the map
RECURSIVE TxtBody(_)
TxtBody(data) ==
    IF data = <<>> THEN <<>>
    ELSE << [tag |-> "header", page |-> Head(data).k],
            [tag |-> "content", text |-> Head(data).v],
            [tag |-> "blank"] >> \o TxtBody(Tail(data))

\* content.encode('latin-1', 'replace').decode('latin-1'): a character outside
\* Latin-1 becomes '?'
Latin1Replace(text) == IF text = "U+20AC" THEN "?" ELSE text

\* OCR8.py save_to_html: an FPDF document, one heading and one cell per item
RECURSIVE FpdfItems(_)
FpdfItems(data) ==
    IF data = <<>> THEN <<>>
    ELSE << [tag |-> "write", page |-> Head(data).k],
            [tag |-> "multi_cell", text |-> Latin1Replace(Head(data).v)],
            [tag |-> "add_page"] >> \o FpdfItems(Tail(data))

FpdfBody(data) == <<[tag |-> "add_page"], [tag |-> "set_font"]>> \o FpdfItems(data)

\* html.escape on one character
EscapeChar(c) ==
    CASE c = "&" -> "&amp;"
      [] c = "<" -> "&lt;"
      [] c = ">" -> "&gt;"
      [] c = "\"" -> "&quot;"
      [] c = "'" -> "&#x27;"
      [] OTHER -> c

\* html.escape(element['text'])
Escape(text) == [i \in 1..Len(text) |-> EscapeChar(text[i])]

\* max(e['x1'] for e in elements), max(e['y1'] for e in elements): the
\* largest value met so far, taken from left to right
RECURSIVE MaxFrom(_, _)
MaxFrom(best, values) ==
    IF values = <<>> THEN best
    ELSE MaxFrom(IF Head(values) > best THEN Head(values) ELSE best, Tail(values))

\* MaxX taking the width from the first element's box only.
MaxXFirst(elements) == elements[1].x1

MaxX(elements) ==
    MaxFrom(elements[1].x1, [i \in 1..(Len(elements) - 1) |-> elements[i + 1].x1])

MaxY(elements) ==
    MaxFrom(elements[1].y1, [i \in 1..(Len(elements) - 1) |-> elements[i + 1].y1])

\* the positioned paragraph of one element
Paragraph(element) ==
    [tag |-> "p", text |-> Escape(element.text),
     left |-> element.x0, top |-> element.y0,
     width |-> element.x1 - element.x0, height |-> element.y1 - element.y0]

\* SkipsPage with the test left out: no page is skipped.
SkipsPageNever(elements) == FALSE

\* if not elements: continue
SkipsPage(elements) == Len(elements) = 0

\* max() of an empty sequence raises ValueError
MaxRaises(elements) == IF Len(elements) = 0 THEN "ValueError" ELSE ""

\* what the loop body of save_to_html raises on one page, "" if nothing
PageRaises(elements) == IF SkipsPage(elements) THEN "" ELSE MaxRaises(elements)

\* what the for loop of save_to_html raises on the element map, "" if nothing
RECURSIVE HtmlRaises(_)
HtmlRaises(data) ==
    IF data = <<>> THEN ""
    ELSE IF PageRaises(Head(data).v) # "" THEN PageRaises(Head(data).v)
    ELSE HtmlRaises(Tail(data))

\* the lines appended for one page of the element map
PageLines(elements) ==
    IF SkipsPage(elements) THEN <<>>
    ELSE <<[tag |-> "div", width |-> MaxX(elements), height |-> MaxY(elements)]>>
            \o [i \in 1..Len(elements) |-> Paragraph(elements[i])]
            \o <<[tag |-> "end_div"]>>

RECURSIVE HtmlPages(_)
HtmlPages(data) ==
    IF data = <<>> THEN <<>>
    ELSE PageLines(Head(data).v) \o HtmlPages(Tail(data))

\* ocr9.py / OCR9.py save_to_html: html_content
HtmlBody(data) ==
    << [tag |-> "html_head"], [tag |-> "style"], [tag |-> "css_body"],
       [tag |-> "css_page"], [tag |-> "css_text_element"], [tag |-> "end_style"] >>
        \o HtmlPages(data) \o <<[tag |-> "end_html"]>>

\* What writing the output file can do.
WriteOutcomes == {"", "OSError"}

\* The serializers have no exception handler: what a failed write raises
\* leaves the serializer.
SerializerRaises(io) == io

\* ---------------------------------------------------------------------- main
\* The answers to the format prompt after .strip().lower(); "pdf" stands for
\* any unsupported answer.
Formats == {"docx", "txt", "html", "pdf"}

\* NoData testing, in the element variants, the element map for the text map.
NoDataOfElements(v, text_map, element_map) ==
    IF HasElements(v) THEN Len(element_map) = 0 ELSE Len(text_map) = 0

\* NoData with ocr9.py also returning when the element map is empty.
NoDataEither(v, text_map, element_map) ==
    Len(text_map) = 0 \/ (v = "ocr9" /\ Len(element_map) = 0)

\* if not data: / if not layout_data:
NoData(v, text_map, element_map) == Len(text_map) = 0

\* if not os.path.exists(pdf_path): print, return
Main_CheckPath ==
    /\ pc = "main_start"
    /\ IF ~file_exists
       THEN /\ stdout' = "missing_file"
            /\ pc' = "exit"
       ELSE /\ pc' = "text_open"
            /\ UNCHANGED stdout
    /\ UNCHANGED <<variant, entry, file_exists, num_pages, page_idx, extracted_data,
                   extracted_elements, ret, layout_data, html_elements_data,
                   output_format, prompted, serializer, out_file, trace, uncaught>>

\* data = extractor.extract_data() / layout_data = ...; the element variants
\* go on to call extract_elements_for_html
Main_AfterText ==
    /\ pc = "text_returned"
    /\ layout_data' = ret
    /\ pc' = IF HasElements(variant) THEN "elem_open" ELSE "main_check"
    /\ trace' = <<>>
    /\ UNCHANGED <<variant, entry, file_exists, num_pages, page_idx, extracted_data,
                   extracted_elements, ret, html_elements_data, output_format,
                   prompted, serializer, out_file, stdout, uncaught>>

\* html_elements_data = extractor.extract_elements_for_html()
Main_AfterElements ==
    /\ pc = "elem_returned"
    /\ html_elements_data' = ret
    /\ pc' = "main_check"
    /\ trace' = <<>>
    /\ UNCHANGED <<variant, entry, file_exists, num_pages, page_idx, extracted_data,
                   extracted_elements, ret, layout_data, output_format, prompted,
                   serializer, out_file, stdout, uncaught>>

\* if not layout_data: print, return
Main_CheckData ==
    /\ pc = "main_check"
    /\ IF NoData(variant, layout_data, html_elements_data)
       THEN /\ stdout' = "no_data"
            /\ pc' = "exit"
       ELSE /\ pc' = "main_prompt"
            /\ UNCHANGED stdout
    /\ UNCHANGED <<variant, entry, file_exists, num_pages, page_idx, extracted_data,
                   extracted_elements, ret, layout_data, html_elements_data,
                   output_format, prompted, serializer, out_file, trace, uncaught>>

\* output_filename = input(...); output_format = input(...).strip().lower()
Main_Prompt ==
    /\ pc = "main_prompt"
    /\ prompted' = TRUE
    /\ \E f \in Formats : output_format' = f
    /\ pc' = "main_dispatch"
    /\ UNCHANGED <<variant, entry, file_exists, num_pages, page_idx, extracted_data,
                   extracted_elements, ret, layout_data, html_elements_data,
                   serializer, out_file, trace, stdout, uncaught>>

\* A serializer called from main builds body and writes it as a file of the
\* given kind.
Save(name, kind, body) ==
    /\ serializer' = name
    /\ \E io \in WriteOutcomes :
        IF io = ""
        THEN /\ out_file' = [written |-> TRUE, kind |-> kind, body |-> body]
             /\ stdout' = "saved"
             /\ pc' = "exit"
             /\ UNCHANGED uncaught
        ELSE IF SerializerRaises(io) = ""
        THEN /\ stdout' = "write_error"
             /\ pc' = "exit"
             /\ UNCHANGED <<out_file, uncaught>>
        ELSE /\ pc' = "crashed"
             /\ uncaught' = SerializerRaises(io)
             /\ UNCHANGED <<out_file, stdout>>
    /\ UNCHANGED <<variant, entry, file_exists, num_pages, page_idx, extracted_data,
                   extracted_elements, ret, layout_data, html_elements_data,
                   output_format, prompted, trace>>

\* if output_format == 'docx': extractor.save_to_docx(...)
Main_SaveDocx ==
    /\ pc = "main_dispatch"
    /\ output_format = "docx"
    /\ Save("save_to_docx", "docx", DocxBody(layout_data))

\* elif output_format == 'txt': extractor.save_to_txt(...)
Main_SaveTxt ==
    /\ pc = "main_dispatch"
    /\ output_format = "txt"
    /\ Save("save_to_txt", "txt", TxtBody(layout_data))

\* elif output_format == 'html': extractor.save_to_html(...): of the text map
\* in OCR8.py, of the element map in OCR9.py and ocr9.py
Main_SaveHtml ==
    /\ pc = "main_dispatch"
    /\ output_format = "html"
    /\ IF ~HasElements(variant)
       THEN Save("save_to_html", "fpdf", FpdfBody(layout_data))
       ELSE IF HtmlRaises(html_elements_data) = ""
       THEN Save("save_to_html", "html", HtmlBody(html_elements_data))
       ELSE /\ serializer' = "save_to_html"
            /\ pc' = "crashed"
            /\ uncaught' = HtmlRaises(html_elements_data)
            /\ UNCHANGED <<variant, entry, file_exists, num_pages, page_idx,
                           extracted_data, extracted_elements, ret, layout_data,
                           html_elements_data, output_format, prompted, out_file,
                           trace, stdout>>

\* else: print the list of supported formats
Main_InvalidFormat ==
    /\ pc = "main_dispatch"
    /\ output_format \notin {"docx", "txt", "html"}
    /\ stdout' = "invalid_format"
    /\ pc' = "exit"
    /\ UNCHANGED <<variant, entry, file_exists, num_pages, page_idx, extracted_data,
                   extracted_elements, ret, layout_data, html_elements_data,
                   output_format, prompted, serializer, out_file, trace, uncaught>>

Next ==
    \/ Text_Open
    \/ Text_Page
    \/ Text_Return
    \/ Elem_Open
    \/ Elem_Page
    \/ Elem_Return
    \/ Main_CheckPath
    \/ Main_AfterText
    \/ Main_AfterElements
    \/ Main_CheckData
    \/ Main_Prompt
    \/ Main_SaveDocx
    \/ Main_SaveTxt
    \/ Main_SaveHtml
    \/ Main_InvalidFormat

Spec == Init /\ [][Next]_vars

\* ================================================================== claims
\* The text method is running or has just returned: trace is its trace.
InText ==
    \/ pc \in {"text_loop", "text_returned"}
    \/ entry = "text" /\ pc \in {"exit", "crashed"}

\* The element method is running or has just returned: trace is its trace.
InElems ==
    \/ pc \in {"elem_loop", "elem_returned"}
    \/ entry = "elements" /\ pc \in {"exit", "crashed"}

\* The map of the method at this point: its local while the loop runs, the
\* returned value afterwards.
TextResult == IF pc = "text_loop" THEN extracted_data ELSE ret
ElemResult == IF pc = "elem_loop" THEN extracted_elements ELSE ret

\* The indices of the calls of fn on page p in the trace.
Calls(fn, p) == {i \in 1..Len(trace) : trace[i].fn = fn /\ trace[i].page = p}

\* The pages whose structured extraction returned a non-empty string.
StructuredPages ==
    {trace[i].page : i \in {j \in 1..Len(trace) :
        trace[j].fn = "extract_text" /\ trace[j].out.exc = "" /\ Truthy(trace[j].out.val)}}

\* The pages whose structured extraction raised, or returned None or "".
UnstructuredPages ==
    {trace[i].page : i \in {j \in 1..Len(trace) :
        trace[j].fn = "extract_text" /\ (trace[j].out.exc # "" \/ ~Truthy(trace[j].out.val))}}

\* The string structured extraction returned on page p.
StructuredText(p) == trace[CHOOSE i \in Calls("extract_text", p) : TRUE].out.val.str

\* What OCR delivered on page p: the recognized string, and "" when
\* recognition returned None or rasterization or recognition raised.
OcrOutput(p) ==
    IF \E i \in Calls("image_to_string", p) : trace[i].out.exc = "" /\ Truthy(trace[i].out.val)
    THEN trace[CHOOSE i \in Calls("image_to_string", p) : TRUE].out.val.str
    ELSE ""

\* C1: in the text extraction loop, a page whose structured extraction returns
\* a non-empty string never has the OCR backend invoked (neither rasterization
\* nor image_to_string), and its entry in the result is the structured text.
C1_NoOcrOnStructuredPage ==
    InText =>
        \A p \in StructuredPages :
            /\ Calls("to_image", p) = {}
            /\ Calls("image_to_string", p) = {}
            /\ p \in Keys(TextResult)
            /\ Lookup(TextResult, p) = StructuredText(p)

\* C1 witness: the text method has returned a map holding a structured page.
C1_Witness ==
    /\ InText
    /\ pc \in {"text_returned", "exit"}
    /\ StructuredPages # {}
    /\ \E p \in StructuredPages : p \in Keys(ret)

\* C2: in the text extraction loop, a page whose structured extraction yields
\* no text (None, "", or an exception) has OCR invoked exactly once, and its
\* entry in the result is the OCR output, possibly the empty string.
C2_OcrOnceOnUnstructuredPage ==
    InText =>
        \A p \in UnstructuredPages :
            /\ Cardinality(Calls("to_image", p)) = 1
            /\ Cardinality(Calls("image_to_string", p)) <= 1
            /\ p \in Keys(TextResult)
            /\ Lookup(TextResult, p) = OcrOutput(p)

\* C2 witness: the method has returned with one page taken from OCR with
\* text, and one page on which structured extraction raised.
C2_Witness ==
    /\ InText
    /\ pc \in {"text_returned", "exit"}
    /\ \E p \in UnstructuredPages : Lookup(ret, p) # ""
    /\ \E i \in 1..Len(trace) : trace[i].fn = "extract_text" /\ trace[i].out.exc # ""

\* The page containers of an HTML body, in order.
IsDiv(line) == line.tag = "div"
Divs(body) == SelectSeq(body, IsDiv)

\* The items of an element map that have at least one element, in order.
HasSomeElement(item) == Len(item.v) > 0
EmittedPages(data) == SelectSeq(data, HasSomeElement)

\* m is the largest member of the non-empty set S.
IsLargest(m, S) == m \in S /\ \A x \in S : x <= m

\* The HTML file of the element variant has been written from the element map.
HtmlWritten ==
    /\ HasElements(variant)
    /\ serializer = "save_to_html"
    /\ out_file.written

C4_MissingFileEmptyResult ==
    ~file_exists =>
        /\ uncaught = ""
        /\ pc \notin {"crashed", "text_loop", "elem_loop"}
        /\ (entry # "main" /\ pc = "exit") =>
              (ret = EmptyDict /\ stdout = "file_not_found")
        /\ entry = "main" =>
              (pc \in {"main_start", "exit"} /\ trace = <<>> /\ ret = EmptyDict)

\* C4 witness: extract_elements_for_html, called directly on a missing file,
\* has returned after a failed open.
C4_Witness ==
    /\ ~file_exists
    /\ entry = "elements"
    /\ pc = "exit"
    /\ Len(trace) = 1
    /\ trace[1].fn = "open"
    /\ trace[1].out.exc = "FileNotFoundError"

\* The calls in the trace that raised.
Raised == {i \in 1..Len(trace) : trace[i].out.exc # ""}

\* C5: no failure of a backend on a page leaves an extraction method as an
\* exception. In the text methods a raising structured extraction counts as no
\* text (OCR runs) and a raising rasterization or recognition gives the page
\* the empty string; in extract_elements_for_html any raising call ends the
\* method with the empty map.
C5_BackendFailuresDegrade ==
    /\ serializer = "" => (uncaught = "" /\ pc # "crashed")
    /\ InText =>
        \A i \in Raised :
            /\ trace[i].fn = "extract_text" => Calls("to_image", trace[i].page) # {}
            /\ trace[i].fn \in {"to_image", "image_to_string"} =>
                  (trace[i].page \in Keys(TextResult)
                     /\ Lookup(TextResult, trace[i].page) = "")
    /\ InElems =>
        (Raised # {} => (pc # "elem_loop" /\ ret = EmptyDict /\ uncaught = ""))

\* C5 witness: extract_elements_for_html has ended with the empty map because
\* the OCR engine was not found on the second page.
C5_Witness ==
    /\ InElems
    /\ pc \in {"elem_returned", "exit"}
    /\ ret = EmptyDict
    /\ \E i \in Raised :
        /\ trace[i].fn = "image_to_data"
        /\ trace[i].out.exc = "TesseractNotFoundError"
        /\ trace[i].page = 2

\* C6: an I/O failure while a serializer writes its file is caught by the
\* serializer and does not reach main, so main ends normally once the format
\* has been chosen.
C6_SerializerFailureCaught ==
    serializer # "" => (uncaught = "" /\ pc # "crashed")

\* C7: in main, a missing input file or an empty text map makes main print its
\* diagnostic and return before the output prompts, and no serializer is
\* called and no file written; in the element variants the test is on the text
\* map, whatever the element map holds.
C7_EarlyReturnBeforePrompt ==
    entry = "main" =>
        /\ ~file_exists =>
              /\ ~prompted /\ serializer = "" /\ ~out_file.written
              /\ pc \in {"main_start", "exit"}
              /\ pc = "exit" => stdout = "missing_file"
        /\ (pc \in {"main_prompt", "main_dispatch"} \/ prompted
              \/ serializer # "" \/ out_file.written) => layout_data # EmptyDict
        /\ (file_exists /\ pc = "exit" /\ layout_data = EmptyDict) =>
              (stdout = "no_data" /\ ~prompted /\ serializer = "" /\ ~out_file.written)

\* C7 witness: main of an element variant has returned on an empty text map
\* while the element map has a page with elements.
C7_Witness ==
    /\ entry = "main"
    /\ HasElements(variant)
    /\ pc = "exit"
    /\ layout_data = EmptyDict
    /\ \E n \in 1..Len(html_elements_data) : Len(html_elements_data[n].v) > 0
    /\ stdout = "no_data"

\* The text of a row is blank: nothing but whitespace.
Blank(text) == \A i \in 1..Len(text) : text[i] \in Whitespace

\* The confidence of a row as a number; the marker -1 is the number -1.
Confidence(row) == row.conf.val

\* Element e has the box of row r.
BoxOfRow(e, r) ==
    /\ e.x0 = r.left /\ e.y0 = r.top
    /\ e.x1 = r.left + r.width /\ e.y1 = r.top + r.height

\* The rows image_to_data returned on page p, <<>> if it was not called.
RowsOf(p) ==
    IF \E i \in Calls("image_to_data", p) : trace[i].out.exc = ""
    THEN trace[CHOOSE i \in Calls("image_to_data", p) : TRUE].out.val
    ELSE <<>>

\* C8: in extract_elements_for_html every element of source 'ocr' comes from a
\* recognized row whose text is not blank and whose confidence is above 50,
\* and no row with confidence at or below 50 (the marker -1 included) or with
\* blank text has an element in the result.
C8_ConfidenceFilter ==
    InElems =>
        \A n \in 1..Len(ElemResult) :
            LET p == ElemResult[n].k
                els == ElemResult[n].v
                rows == RowsOf(p)
            IN  /\ \A i \in 1..Len(els) :
                    els[i].source = "ocr" =>
                        \E j \in 1..Len(rows) :
                            /\ ~Blank(rows[j].text)
                            /\ Confidence(rows[j]) > ConfThreshold
                            /\ BoxOfRow(els[i], rows[j])
                            /\ els[i].text # <<>>
                            /\ ~(els[i].text[1] \in Whitespace)
                /\ \A j \in 1..Len(rows) :
                    (Blank(rows[j].text) \/ Confidence(rows[j]) <= ConfThreshold) =>
                        ~\E i \in 1..Len(els) : BoxOfRow(els[i], rows[j])

\* C8 witness: a page of the returned map whose rows were a word at the
\* threshold and a word above it, of which only the second has an element.
C8_Witness ==
    /\ InElems
    /\ pc \in {"elem_returned", "exit"}
    /\ \E n \in 1..Len(ret) :
        LET rows == RowsOf(ret[n].k)
        IN  /\ Len(rows) = 2
            /\ Confidence(rows[1]) = ConfThreshold
            /\ Confidence(rows[2]) > ConfThreshold
            /\ Len(ret[n].v) = 1
            /\ ret[n].v[1].source = "ocr"

\* The words extract_words returned on page p.
WordsOf(p) == trace[CHOOSE i \in Calls("extract_words", p) : TRUE].out.val

\* C9: in extract_elements_for_html, a page on which extract_words returns at
\* least one word has no OCR call and one 'plumber' element per word with the
\* box (x0, top, x1, bottom); a page on which it returns none has OCR invoked
\* and only 'ocr' elements with the box (left, top, left+width, top+height).
\* No page mixes the two sources.
C9_OneSourcePerPage ==
    InElems =>
        /\ \A i \in 1..Len(trace) :
            (trace[i].fn = "extract_words" /\ trace[i].out.exc = "") =>
                IF Len(trace[i].out.val) > 0
                THEN /\ Calls("to_image", trace[i].page) = {}
                     /\ Calls("image_to_data", trace[i].page) = {}
                ELSE Cardinality(Calls("to_image", trace[i].page)) = 1
        /\ \A n \in 1..Len(ElemResult) :
            LET p == ElemResult[n].k
                els == ElemResult[n].v
            IN  IF Len(WordsOf(p)) > 0
                THEN /\ Len(els) = Len(WordsOf(p))
                     /\ \A i \in 1..Len(els) :
                         /\ els[i].source = "plumber"
                         /\ els[i].text = WordsOf(p)[i].text
                         /\ els[i].x0 = WordsOf(p)[i].x0
                         /\ els[i].y0 = WordsOf(p)[i].top
                         /\ els[i].x1 = WordsOf(p)[i].x1
                         /\ els[i].y1 = WordsOf(p)[i].bottom
                ELSE /\ Cardinality(Calls("image_to_data", p)) = 1
                     /\ \A i \in 1..Len(els) :
                         /\ els[i].source = "ocr"
                         /\ \E j \in 1..Len(RowsOf(p)) : BoxOfRow(els[i], RowsOf(p)[j])

\* C9 witness: a returned map with one page of a structured word and one page
\* of a recognized word.
C9_Witness ==
    /\ InElems
    /\ pc \in {"elem_returned", "exit"}
    /\ \E m, n \in 1..Len(ret) :
        /\ Len(ret[m].v) = 1 /\ ret[m].v[1].source = "plumber"
        /\ Len(ret[n].v) = 1 /\ ret[n].v[1].source = "ocr"

\* The calls of the trace without their outcomes.
CallSeq == [i \in 1..Len(trace) |-> <<trace[i].fn, trace[i].page>>]

\* The calls the text pipeline owes to pages p..n, given what each call did:
\* extract_text, then rasterization if that gave no text, then recognition if
\* rasterization returned.
RECURSIVE RefCalls(_, _)
RefCalls(p, n) ==
    IF p > n THEN <<>>
    ELSE <<<<"extract_text", p>>>>
            \o (IF p \in StructuredPages THEN <<>>
                ELSE <<<<"to_image", p>>>>
                        \o (IF \E i \in Calls("to_image", p) : trace[i].out.exc = ""
                            THEN <<<<"image_to_string", p>>>> ELSE <<>>))
            \o RefCalls(p + 1, n)

\* The map the text pipeline owes to a document of n pages, given what each
\* call did.
RefMap(n) ==
    [p \in 1..n |->
        [k |-> p, v |-> IF p \in StructuredPages THEN StructuredText(p) ELSE OcrOutput(p)]]

\* What main has decided when it has ended.
Decision ==
    IF serializer # "" THEN serializer
    ELSE IF prompted THEN "invalid_format"
    ELSE stdout

\* The text method has ended with the map and the calls that the outcomes of
\* the backends determine, whichever file runs.
C10_TextPipeline ==
    (InText /\ pc \in {"text_returned", "exit"}) =>
        IF trace[1].out.exc # ""
        THEN Len(trace) = 1 /\ ret = EmptyDict
        ELSE /\ \A p \in 1..num_pages : Cardinality(Calls("extract_text", p)) = 1
             /\ CallSeq = <<<<"open", 0>>>> \o RefCalls(1, num_pages)
             /\ ret = RefMap(num_pages)

\* main has ended with the decision that the input file, the text map and the
\* typed format determine, whichever file runs.
C10_MainDecision ==
    (entry = "main" /\ pc \in {"exit", "crashed"}) =>
        /\ ~file_exists => Decision = "missing_file"
        /\ (file_exists /\ layout_data = EmptyDict) => Decision = "no_data"
        /\ (file_exists /\ layout_data # EmptyDict) =>
              /\ prompted
              /\ output_format = "docx" => Decision = "save_to_docx"
              /\ output_format = "txt" => Decision = "save_to_txt"

\* main's text map is the map the text method returned, and nothing else
\* assigns it.
C10_MainTakesTextMap ==
    layout_data' = IF pc = "text_returned" THEN ret ELSE layout_data

\* C10: the three files agree on the text pipeline: the map returned and the
\* sequence of backend calls are one function of the document and of the
\* outcomes of the backends, and main's decision (early return, or the
\* serializer called for docx and txt) is one function of the input file, that
\* map and the typed format; none of the three depends on the file that runs.
C10_VariantsAgree ==
    /\ [](C10_TextPipeline /\ C10_MainDecision)
    /\ [][C10_MainTakesTextMap]_vars

\* C10 witness: main of ocr9.py has written the txt file of a two-page text
\* map although its element extraction returned the empty map.
C10_Witness ==
    /\ entry = "main"
    /\ variant = "ocr9"
    /\ pc = "exit"
    /\ serializer = "save_to_txt"
    /\ out_file.written
    /\ Len(layout_data) = 2
    /\ html_elements_data = EmptyDict

\* The pages of the calls of the trace, in call order, the open left out.
PagesCalled == [i \in 1..(Len(trace) - 1) |-> trace[i + 1].page]

\* The keys of a map in insertion order.
KeySeq(d) == [i \in 1..Len(d) |-> d[i].k]

\* The page numbers 1..n in document order.
PageOrder(n) == [i \in 1..n |-> i]

\* C11: the text methods take the pages one after the other in document
\* order; while the loop runs the keys of the map are the numbers of the pages
\* already processed, in that order, and a run that ends without a whole-run
\* failure returns one entry per page of the document, keyed by the page
\* number and inserted in page order.
C11_OneEntryPerPageInOrder ==
    (InText /\ trace[1].out.exc = "") =>
        /\ \A i, j \in 1..Len(PagesCalled) : i < j => PagesCalled[i] <= PagesCalled[j]
        /\ pc = "text_loop" =>
              /\ KeySeq(extracted_data) = PageOrder(page_idx - 1)
              /\ {p \in 1..num_pages : Calls("extract_text", p) # {}} = 1..(page_idx - 1)
        /\ pc # "text_loop" =>
              /\ KeySeq(ret) = PageOrder(num_pages)
              /\ \A p \in 1..num_pages : Cardinality(Calls("extract_text", p)) = 1

\* C11 witness: the loop stands between the two pages of a document, with the
\* first page in the map and the second not yet.
C11_Witness ==
    /\ InText
    /\ pc = "text_loop"
    /\ num_pages = 2
    /\ page_idx = 2
    /\ Keys(extracted_data) = {1}

\* A rasterization or recognition call on page p raised.
OcrRaised(p) ==
    \E i \in Raised : trace[i].page = p /\ trace[i].fn \in {"to_image", "image_to_string"}

\* The structured extraction of page p raised.
StructuredRaised(p) ==
    \E i \in Raised : trace[i].page = p /\ trace[i].fn = "extract_text"

\* The entry page p owes to its own calls alone.
OwnEntry(p) == IF p \in StructuredPages THEN StructuredText(p) ELSE OcrOutput(p)

\* Every page of the document has its entry once the method has returned a
\* map, whatever failed on the way.
AllPagesEntered ==
    (pc # "text_loop" /\ trace[1].out.exc = "") => Keys(ret) = 1..num_pages

\* C12 as stated: a backend failure on page p (structured extraction raising
\* and/or OCR raising) sets page p's entry to the empty string, the entries of
\* the other pages are those their own calls give them, and every page gets
\* its entry.
C12_FailureEmptiesEntry ==
    InText =>
        /\ \A p \in Keys(TextResult) :
            IF StructuredRaised(p) \/ OcrRaised(p)
            THEN Lookup(TextResult, p) = ""
            ELSE Lookup(TextResult, p) = OwnEntry(p)
        /\ AllPagesEntered

\* One iteration keeps the entries it found and appends the entry of its page.
C12_IterationKeepsEntries ==
    (pc = "text_loop" /\ pc' = "text_loop") =>
        /\ Len(extracted_data') = Len(extracted_data) + 1
        /\ SubSeq(extracted_data', 1, Len(extracted_data)) = extracted_data
        /\ extracted_data'[Len(extracted_data')].k = page_idx

\* The entry of every processed page is the one its own calls give it: "" when
\* its rasterization or recognition raised, the OCR output when only its
\* structured extraction raised.
C12_EntriesByOwnPage ==
    InText =>
        /\ \A p \in Keys(TextResult) :
            /\ Lookup(TextResult, p) = OwnEntry(p)
            /\ OcrRaised(p) => Lookup(TextResult, p) = ""
        /\ AllPagesEntered

\* C12 amended: a backend failure on page p touches page p's entry only: a
\* raising rasterization or recognition makes it the empty string, a raising
\* structured extraction alone makes it the OCR output; the entries of the
\* pages processed before stay as they were, and the loop goes on so that
\* every later page gets its entry.
C12_FailureTouchesOwnEntryOnly ==
    /\ []C12_EntriesByOwnPage
    /\ [][C12_IterationKeepsEntries]_vars

\* C12 witness: a returned two-page map whose first page has text and whose
\* second page is "" after its recognition raised.
C12_Witness ==
    /\ InText
    /\ pc \in {"text_returned", "exit"}
    /\ Len(ret) = 2
    /\ ret[1].v # ""
    /\ OcrRaised(2)
    /\ ret[2].v = ""

\* The number of lines that the first n of the given pages take in an HTML
\* body: per page its container, one paragraph per element, and the end of
\* the container.
RECURSIVE LinesOf(_, _)
LinesOf(pages, n) ==
    IF n = 0 THEN 0 ELSE LinesOf(pages, n - 1) + Len(pages[n].v) + 2

\* The lines of an HTML body that precede its first page.
HeadLines(body) == (CHOOSE i \in 1..Len(body) : body[i].tag = "end_style")

\* C13: in save_to_html of the element variant, a page without elements gives
\* no page container and never makes the serializer fail (the maximum over an
\* empty list is never taken); the file has as many page containers as there
\* are pages with at least one element, and each container holds one
\* positioned paragraph per element of its page, in element order, of width
\* x1-x0 and height y1-y0.
C13_EmptyPagesSkipped ==
    /\ (HasElements(variant) /\ serializer = "save_to_html") => uncaught # "ValueError"
    /\ HtmlWritten =>
        LET body == out_file.body
            pages == EmittedPages(html_elements_data)
            h == HeadLines(body)
        IN  /\ Len(Divs(body)) =
                  Cardinality({n \in 1..Len(html_elements_data) :
                                  Len(html_elements_data[n].v) >= 1})
            /\ Len(body) = h + LinesOf(pages, Len(pages)) + 1
            /\ \A n \in 1..Len(pages) :
                LET o == h + LinesOf(pages, n - 1)
                    els == pages[n].v
                IN  /\ body[o + 1].tag = "div"
                    /\ \A i \in 1..Len(els) :
                        /\ body[o + 1 + i].tag = "p"
                        /\ body[o + 1 + i].left = els[i].x0
                        /\ body[o + 1 + i].top = els[i].y0
                        /\ body[o + 1 + i].width = els[i].x1 - els[i].x0
                        /\ body[o + 1 + i].height = els[i].y1 - els[i].y0
                    /\ body[o + Len(els) + 2].tag = "end_div"

\* C13 witness: a written file of a two-page element map whose first page has
\* no element and whose second page has two.
C13_Witness ==
    /\ HtmlWritten
    /\ Len(html_elements_data) = 2
    /\ Len(html_elements_data[1].v) = 0
    /\ Len(html_elements_data[2].v) = 2
    /\ Len(Divs(out_file.body)) = 1

====
